---- MODULE Spec2Model ----
(***************************************************************************)
(* Model of Stat-helper.py: the command loops of the statistics helpers    *)
(* (normal, difference of proportions, chi-square, linear, proportion,     *)
(* regression), their deferred-command slot, and their parameter stores.   *)
(*                                                                         *)
(* A float is modelled as an exact rational <<num, den>> in lowest terms   *)
(* with den > 0.  A Python name that has not been assigned yet holds       *)
(* Unbound; reading it raises UnboundLocalError/NameError, which nothing   *)
(* catches, so the process ends (pc = "crashed").                          *)
(*                                                                         *)
(* The rounding digit count r is display-only and is not modelled.         *)
(***************************************************************************)
EXTENDS Integers, Sequences, FiniteSets, TLC

VARIABLES
  pc,            \* "main" | "prompt" (at a loop's command-code input) | "top" (at the while test, code set) | "stuck" (inside a prompt no input satisfies) | "crashed" | "ended"
  helper_type,   \* main(): the helper that is running, "none" between helpers
  code,          \* the running helper's local `code`
  future_code,   \* the running helper's local `future_code` (deferred slot), 0 = empty
  ran,           \* output sink: <<code, outcome>> of each command body run since the user last typed a command code
                 \* (a body that asks for the next code itself, outcome "asked", starts the record afresh)
  owed,          \* history: the command most recently blocked and not executed since, 0 = none
  resumes,       \* history: number of resumptions since the last blocked command (capped at 2)
  sdev,                     \* local of normal_helper, diff_prop_helper and proportion_helper
  mean_set, mean,           \* normal_helper locals
  parms_set, d,             \* diff_prop_helper locals
  N, total, observed, expected, z2, chance, chi_squared, Yates, data_entered,  \* chi2_helper locals
  stat_obs,                 \* history: the observations chi_squared and Yates were last computed from
  left, right, pl, pr, lin_slope,   \* linear_helper locals (l, u, p are copies of left, right, pl; lin_slope is its local `slope`)
  prop_n, p,                \* proportion_helper locals n and p
  xlist, ylist, n, data_crunched,   \* module globals of regression_helper: the point set and the cache flag
  stats,                    \* the other module globals of regression_helper (totalx .. var_unexplained), one field each
  data_from_file,           \* regression_helper local
  corrected,                \* history: code 3 has changed a point of the current point set
  file,                     \* the lines of the CSV file that holds the current point set (read by code 1, or appended to by code 2), <<>> when no file does
  reported,                 \* output of the last import: how many "** ERROR line#" messages it printed
  shown,                    \* output of the command that has just run: the reverse line code 7 printed, if it printed one
  listed                    \* output of the command that has just run: the points code 2 was asked for and those it printed

Dispatch   == <<pc, helper_type, code, future_code, ran, owed, resumes>>
NormalVars == <<mean_set, mean>>
DiffVars   == <<parms_set, d>>
ChiVars    == <<N, total, observed, expected, z2, chance, chi_squared, Yates, data_entered, stat_obs>>
LinVars    == <<left, right, pl, pr, lin_slope>>
PropVars   == <<prop_n, p>>
RegVars    == <<xlist, ylist, n, data_crunched, stats, data_from_file, corrected, file, reported, shown, listed>>

vars == <<Dispatch, sdev, NormalVars, DiffVars, ChiVars, LinVars, PropVars, RegVars>>

\* what the actions of one helper leave alone
NotNormal == <<DiffVars, ChiVars, LinVars, PropVars, RegVars>>
NotDiff   == <<NormalVars, ChiVars, LinVars, PropVars, RegVars>>
NotChi    == <<sdev, NormalVars, DiffVars, LinVars, PropVars, RegVars>>
NotLin    == <<sdev, NormalVars, DiffVars, ChiVars, PropVars, RegVars>>
NotProp   == <<NormalVars, DiffVars, ChiVars, LinVars, RegVars>>
NotReg    == <<sdev, NormalVars, DiffVars, ChiVars, LinVars, PropVars>>
Locals    == <<sdev, NormalVars, DiffVars, ChiVars, LinVars, PropVars, RegVars>>

----------------------------------------------------------------------------
(* Exact rationals standing for floats *)

Unbound == <<>>

Abs(i) == IF i < 0 THEN -i ELSE i

RECURSIVE GCD(_, _)
GCD(a, b) == IF b = 0 THEN a ELSE GCD(b, a % b)

Rat(num, den) ==
  LET g == GCD(Abs(num), Abs(den))
      s == IF den < 0 THEN -1 ELSE 1
  IN  <<(s * num) \div g, (s * den) \div g>>

RInt(i)    == <<i, 1>>
RAdd(a, b) ==
  LET g == GCD(a[2], b[2])
  IN  Rat(a[1] * (b[2] \div g) + b[1] * (a[2] \div g), (a[2] \div g) * b[2])
RSub(a, b) == RAdd(a, <<0 - b[1], b[2]>>)
RMul(a, b) ==
  LET g == GCD(Abs(a[1]), b[2])
      h == GCD(Abs(b[1]), a[2])
  IN  Rat((a[1] \div g) * (b[1] \div h), (a[2] \div h) * (b[2] \div g))
RDiv(a, b) == RMul(a, IF b[1] < 0 THEN <<0 - b[2], 0 - b[1]>> ELSE <<b[2], b[1]>>)
RLt(a, b)  == a[1] * b[2] < b[1] * a[2]
RIsZero(a) == a[1] = 0
\* math.sqrt(q) of a rational q >= 0, kept symbolically
RSqrt(q)   == <<q[1], q[2], "sqrt">>
\* int(q) of a rational q >= 0
RFloor(q)  == q[1] \div q[2]

----------------------------------------------------------------------------
(* The dispatcher bookkeeping shared by every helper loop *)

Last(s) == s[Len(s)]

\* the body of command c ended with outcome o
Log(c, o) == ran' = Append(ran, <<c, o>>)

\* an uncaught exception inside command c: main() does not catch it
Crash(c) ==
  /\ pc' = "crashed"
  /\ Log(c, "crash")

\* the statement after the if/elif chain: code = get_user_int_input(...)
ToPrompt == pc' = "prompt"

\* history kept beside the slot
Owe(c)     == owed' = c /\ resumes' = 0
Settle(c)  == owed' = (IF owed = c THEN 0 ELSE owed) /\ resumes' = resumes
CountResume == resumes' = (IF resumes < 2 THEN resumes + 1 ELSE 2) /\ owed' = owed
\* a new request typed while nothing is deferred starts a fresh history
NewRequest ==
  /\ owed' = (IF future_code = 0 THEN 0 ELSE owed)
  /\ resumes' = (IF future_code = 0 THEN 0 ELSE resumes)

AtTop(h, c) == pc = "top" /\ helper_type = h /\ code = c

\* whole numbers the user may type at a prompt for an index
MaxTyped == 4
Typed == (0 - 1) .. MaxTyped

\* get_user_int_input(prompt, default, least, most): every value a call can return.
\* default, least and most are sets of at most one number, {} standing for None.
\* An empty line returns the default when there is one; a number typed is returned
\* when it is not below least and not above most; anything else asks again.
GetUserIntInput(default, least, most) ==
  default \cup {v \in Typed : (\A lo \in least : v >= lo) /\ (\A hi \in most : v <= hi)}

----------------------------------------------------------------------------
(* normal_helper *)

MaxMean == 1
MaxSdev == 2

NormalCodes == 0 .. 17

\* commands that check mean_set and defer to command 2
NormalGuarded == {6, 7, 9, 10, 11, 13}

NormalEnter ==
  /\ pc = "main"
  /\ helper_type' = "normal"
  /\ mean_set' = FALSE
  /\ future_code' = 0
  /\ code' = 0
  /\ pc' = "prompt"
  /\ ran' = <<>> /\ owed' = 0 /\ resumes' = 0
  /\ UNCHANGED <<sdev, mean, NotNormal>>

NormalPrompt ==
  /\ pc = "prompt" /\ helper_type = "normal"
  /\ \E c \in NormalCodes : code' = c
  /\ pc' = "top"
  /\ ran' = <<>>
  /\ NewRequest
  /\ UNCHANGED <<helper_type, future_code, sdev, NormalVars, NotNormal>>

\* a resumption that leaves the slot as it is
NormalResumeMutant(c) ==
  /\ code' = future_code
  /\ future_code' = future_code
  /\ pc' = "top"
  /\ Log(c, "done")
  /\ CountResume

\* the tail of code 2: if future_code>0: code = future_code; future_code = 0; continue
NormalResume(c) ==
  /\ code' = future_code
  /\ future_code' = 0
  /\ pc' = "top"
  /\ Log(c, "done")
  /\ CountResume

\* code 2: set mean, sdev, mean_set; resume the deferred command if there is one
NormalCmd2 ==
  /\ AtTop("normal", 2)
  /\ \E u \in 0 .. MaxMean, s \in 1 .. MaxSdev :
       /\ mean' = RInt(u)
       /\ sdev' = RInt(s)
  /\ mean_set' = TRUE
  /\ IF future_code > 0
       THEN NormalResume(2)
       ELSE /\ ToPrompt /\ Log(2, "done") /\ Settle(2)
            /\ UNCHANGED <<code, future_code>>
  /\ UNCHANGED <<helper_type, NotNormal>>

\* code 3: prints mean and sdev without checking mean_set
NormalCmd3 ==
  /\ AtTop("normal", 3)
  /\ IF mean = Unbound
       THEN Crash(3) /\ UNCHANGED <<owed, resumes>>
       ELSE ToPrompt /\ Log(3, "done") /\ Settle(3)
  /\ UNCHANGED <<helper_type, code, future_code, sdev, NormalVars, NotNormal>>

\* a block that fills the slot and asks the user for the next command code
NormalBlockAsks(c) ==
  /\ code' = code
  /\ future_code' = c
  /\ ToPrompt
  /\ Log(c, "blocked")
  /\ Owe(c)

\* codes 6, 7, 9, 10, 11, 13: if mean_set == False: future_code = code; code = 2; continue
NormalBlock(c) ==
  /\ code' = 2
  /\ future_code' = c
  /\ pc' = "top"
  /\ Log(c, "blocked")
  /\ Owe(c)

NormalCmdGuarded ==
  /\ pc = "top" /\ helper_type = "normal" /\ code \in NormalGuarded
  /\ IF mean_set = FALSE
       THEN NormalBlock(code)
       ELSE /\ ToPrompt /\ Log(code, "done") /\ Settle(code)
            /\ UNCHANGED <<code, future_code>>
  /\ UNCHANGED <<helper_type, sdev, NormalVars, NotNormal>>

\* code 8: checks mean_set, then calls the undefined name get_user_float_inputinput
\* code 12: checks mean_set, then evaluates the undefined name NONE
NormalCmdGuardedBroken ==
  /\ pc = "top" /\ helper_type = "normal" /\ code \in {8, 12}
  /\ IF mean_set = FALSE
       THEN NormalBlock(code)
       ELSE /\ Crash(code)
            /\ UNCHANGED <<code, future_code, owed, resumes>>
  /\ UNCHANGED <<helper_type, sdev, NormalVars, NotNormal>>

\* code 14: reads the undefined name Z_low
NormalCmd14 ==
  /\ AtTop("normal", 14)
  /\ Crash(14)
  /\ UNCHANGED <<helper_type, code, future_code, owed, resumes, sdev, NormalVars, NotNormal>>

\* codes 1, 4, 5, 15, 16, 17: need no distribution parameters
NormalCmdPlain ==
  /\ pc = "top" /\ helper_type = "normal" /\ code \in {1, 4, 5, 15, 16, 17}
  /\ ToPrompt /\ Log(code, "done") /\ Settle(code)
  /\ UNCHANGED <<helper_type, code, future_code, sdev, NormalVars, NotNormal>>

NormalNext ==
  \/ NormalEnter \/ NormalPrompt \/ NormalCmd2 \/ NormalCmd3 \/ NormalCmdGuarded
  \/ NormalCmdGuardedBroken \/ NormalCmd14 \/ NormalCmdPlain

----------------------------------------------------------------------------
(* diff_prop_helper *)

MaxTrials == 3

\* sample sizes: get_user_int_input(..., None, 2)
Trials == 2 .. MaxTrials
\* proportions entered at code 3: get_user_float_input(..., None, 0.000001, 0.999999)
Proportions == {<<1, 4>>, <<1, 2>>}

One == <<1, 1>>

\* sdev = math.sqrt(p1*fail1/float(n1) + p2*fail2/float(n2))
DiffSdev(n1, p1, n2, p2) ==
  RSqrt(RAdd(RDiv(RMul(p1, RSub(One, p1)), RInt(n1)),
             RDiv(RMul(p2, RSub(One, p2)), RInt(n2))))

\* pbar = (k1+k2)/(n1+n2); tstat = d/math.sqrt((pbar*(1-pbar))*(1/n1 + 1/n2)) divides by zero when pbar is 0 or 1
DiffPbar(n1, k1, n2, k2) == Rat(k1 + k2, n1 + n2)
DiffTstatFails(n1, k1, n2, k2) ==
  LET pbar == DiffPbar(n1, k1, n2, k2)
  IN  RIsZero(RMul(pbar, RSub(One, pbar)))

DiffEnter ==
  /\ pc = "main"
  /\ helper_type' = "diff of proportions"
  /\ parms_set' = FALSE
  /\ future_code' = 0
  /\ code' = 0
  /\ pc' = "prompt"
  /\ ran' = <<>> /\ owed' = 0 /\ resumes' = 0
  /\ UNCHANGED <<sdev, d, NotDiff>>

\* lines 392 and 516: get_user_int_input("Enter the command code (0, or 1-9) :", ., 0, 9)
DiffPrompt ==
  /\ pc = "prompt" /\ helper_type = "diff of proportions"
  /\ \E c \in 0 .. 9 : code' = c
  /\ pc' = "top"
  /\ ran' = <<>>
  /\ NewRequest
  /\ UNCHANGED <<helper_type, future_code, Locals>>

\* a block that keeps the command already in the slot
DiffBlockMutant(c) ==
  /\ future_code' = IF future_code = 0 THEN c ELSE future_code
  /\ \E c2 \in 0 .. 8 : code' = c2
  /\ pc' = "top"
  /\ ran' = <<<<c, "asked">>>>
  /\ Owe(c)

\* codes 1, 2, 5 with parms_set == False: future_code = code; code = get_user_int_input(..., 4, 0, 8); continue
DiffBlock(c) ==
  /\ future_code' = c
  /\ \E c2 \in 0 .. 8 : code' = c2
  /\ pc' = "top"
  /\ ran' = <<<<c, "asked">>>>
  /\ Owe(c)

\* codes 1, 2, 5 deferring themselves whether or not the parameters are set
DiffCmdGuardedAlways ==
  /\ pc = "top" /\ helper_type = "diff of proportions" /\ code \in {1, 2, 5}
  /\ DiffBlock(code)
  /\ UNCHANGED <<helper_type, sdev, DiffVars, NotDiff>>

DiffCmdGuarded ==
  /\ pc = "top" /\ helper_type = "diff of proportions" /\ code \in {1, 2, 5}
  /\ IF parms_set = FALSE
       THEN DiffBlock(code)
       ELSE /\ ToPrompt /\ Log(code, "done") /\ Settle(code)
            /\ UNCHANGED <<code, future_code>>
  /\ UNCHANGED <<helper_type, sdev, DiffVars, NotDiff>>

\* a tail of codes 3 and 4 that falls through to the command-code prompt
DiffResumeAtPrompt(c) ==
  /\ code' = future_code
  /\ future_code' = 0
  /\ ToPrompt
  /\ Log(c, "done")
  /\ CountResume

\* the tail of codes 3 and 4: if future_code>0: code=future_code; future_code=0; continue
DiffResume(c) ==
  /\ code' = future_code
  /\ future_code' = 0
  /\ pc' = "top"
  /\ Log(c, "done")
  /\ CountResume

DiffStore(c, n1, p1, k1, n2, p2, k2) ==
  /\ d' = RSub(p1, p2)
  /\ sdev' = DiffSdev(n1, p1, n2, p2)
  /\ parms_set' = TRUE
  /\ IF DiffTstatFails(n1, k1, n2, k2)
       THEN Crash(c) /\ UNCHANGED <<code, future_code, owed, resumes>>
       ELSE IF future_code > 0
              THEN DiffResume(c)
              ELSE /\ ToPrompt /\ Log(c, "done") /\ Settle(c)
                   /\ UNCHANGED <<code, future_code>>

\* code 3: n1, p1, n2, p2; k = int(p*n)
DiffCmd3 ==
  /\ AtTop("diff of proportions", 3)
  /\ \E n1 \in Trials, n2 \in Trials, p1 \in Proportions, p2 \in Proportions :
       DiffStore(3, n1, p1, RFloor(RMul(p1, RInt(n1))), n2, p2, RFloor(RMul(p2, RInt(n2))))
  /\ UNCHANGED <<helper_type, NotDiff>>

\* code 4: n1, k1 in 1..n1, n2, k2 in 1..n2; p = k/n
DiffCmd4 ==
  /\ AtTop("diff of proportions", 4)
  /\ \E n1 \in Trials, n2 \in Trials :
       \E k1 \in 1 .. n1, k2 \in 1 .. n2 :
         DiffStore(4, n1, Rat(k1, n1), k1, n2, Rat(k2, n2), k2)
  /\ UNCHANGED <<helper_type, NotDiff>>

\* code 8: z = (dhat-d)/sdev without checking parms_set
DiffCmd8 ==
  /\ AtTop("diff of proportions", 8)
  /\ IF d = Unbound
       THEN Crash(8) /\ UNCHANGED <<owed, resumes>>
       ELSE ToPrompt /\ Log(8, "done") /\ Settle(8)
  /\ UNCHANGED <<helper_type, code, future_code, sdev, DiffVars, NotDiff>>

\* codes 6, 7, 9: need no sample parameters
DiffCmdPlain ==
  /\ pc = "top" /\ helper_type = "diff of proportions" /\ code \in {6, 7, 9}
  /\ ToPrompt /\ Log(code, "done") /\ Settle(code)
  /\ UNCHANGED <<helper_type, code, future_code, Locals>>

DiffNext ==
  \/ DiffEnter \/ DiffPrompt \/ DiffCmdGuarded \/ DiffCmd3 \/ DiffCmd4
  \/ DiffCmd8 \/ DiffCmdPlain

----------------------------------------------------------------------------
(* chi2_helper *)

MaxCat == 2
MaxObs == 1

\* number of categories: get_user_int_input(..., None, 2, 26)
Categories == 2 .. MaxCat
\* expected probabilities entered at code 3 (decimals, or num/denom with denom > num)
ChiProbs == {<<1, 4>>, <<1, 2>>}

Half == <<1, 2>>
Zero == <<0, 1>>

RAbs(a) == <<Abs(a[1]), a[2]>>
RSq(a)  == RMul(a, a)

RECURSIVE SumInts(_)
SumInts(s) == IF s = <<>> THEN 0 ELSE Head(s) + SumInts(Tail(s))

RECURSIVE SumRats(_)
SumRats(s) == IF s = <<>> THEN Zero ELSE RAdd(Head(s), SumRats(Tail(s)))

Zeros(k) == [i \in 1 .. k |-> Zero]

\* chi = ((observed[i]-expected[i])**2) / expected[i]
ChiTerms(obs, exp) ==
  [i \in 1 .. Len(obs) |-> RDiv(RSq(RSub(RInt(obs[i]), exp[i])), exp[i])]

\* chi = (abs(observed[i] - expected[i]) - 0.5)**2 / expected[i]
YatesTerms(obs, exp) ==
  [i \in 1 .. Len(obs) |-> RDiv(RSq(RSub(RAbs(RSub(RInt(obs[i]), exp[i])), Half)), exp[i])]

ChiEnter ==
  /\ pc = "main"
  /\ helper_type' = "chi2"
  /\ future_code' = 0
  /\ data_entered' = FALSE
  /\ N' = 0
  /\ total' = 0
  /\ chi_squared' = Zero
  /\ Yates' = Zero
  /\ chance' = <<Zero>>
  /\ observed' = <<0>>
  /\ expected' = <<Zero>>
  /\ z2' = <<Zero>>
  /\ stat_obs' = <<>>
  /\ code' = 0
  /\ pc' = "prompt"
  /\ ran' = <<>> /\ owed' = 0 /\ resumes' = 0
  /\ UNCHANGED NotChi

\* lines 542 and 745: get_user_int_input("Enter the command code (0, or 1-8) :", ., 0, 8)
ChiPrompt ==
  /\ pc = "prompt" /\ helper_type = "chi2"
  /\ \E c \in 0 .. 8 : code' = c
  /\ pc' = "top"
  /\ ran' = <<>>
  /\ NewRequest
  /\ UNCHANGED <<helper_type, future_code, Locals>>

\* a tail of code 1 that continues with the deferred command
ChiResumeContinues(c) ==
  /\ code' = future_code
  /\ future_code' = 0
  /\ pc' = "top"
  /\ Log(c, "done")
  /\ Settle(c)

\* the tail of code 1: if future_code != 0: code = future_code; future_code = 0
\* and then, with no `continue`, line 745 reads a new code
ChiResume(c) ==
  /\ code' = future_code
  /\ future_code' = 0
  /\ ToPrompt
  /\ Log(c, "done")
  /\ Settle(c)

\* code 1: the number of categories and the observed frequency of each
ChiCmd1 ==
  /\ AtTop("chi2", 1)
  /\ \E k \in Categories :
       \E obs \in [1 .. k -> 0 .. MaxObs] :
         /\ N' = k
         /\ total' = SumInts(obs)
         /\ observed' = obs
         /\ expected' = Zeros(k)
         /\ z2' = Zeros(k)
         /\ chance' = Zeros(k)
  /\ IF future_code # 0
       THEN ChiResume(1)
       ELSE /\ ToPrompt /\ Log(1, "done") /\ Settle(1)
            /\ UNCHANGED <<code, future_code>>
  /\ UNCHANGED <<helper_type, chi_squared, Yates, data_entered, stat_obs, NotChi>>

\* a block that keeps the command already in the slot
ChiBlockMutant(c, prereq) ==
  /\ future_code' = IF future_code = 0 THEN c ELSE future_code
  /\ code' = prereq
  /\ pc' = "top"
  /\ Log(c, "blocked")
  /\ Owe(c)

\* codes 2, 3, 4, 5 with total == 0: future_code = code; code = 1; continue
\* code 6 with data_entered false: future_code = code; code = 5; continue
ChiBlock(c, prereq) ==
  /\ future_code' = c
  /\ code' = prereq
  /\ pc' = "top"
  /\ Log(c, "blocked")
  /\ Owe(c)

ChiDone(c) ==
  /\ ToPrompt /\ Log(c, "done") /\ Settle(c)
  /\ UNCHANGED <<code, future_code>>

\* the loop of codes 2, 3, 4: expected[i], z2[i], chi_squared and Yates from the observations
ChiCompute(exp) ==
  /\ expected' = exp
  /\ z2' = ChiTerms(observed, exp)
  /\ chi_squared' = SumRats(ChiTerms(observed, exp))
  /\ Yates' = SumRats(YatesTerms(observed, exp))
  /\ stat_obs' = observed

\* code 2: the same expected frequency total/N for every category
ChiCmd2 ==
  /\ AtTop("chi2", 2)
  /\ IF total = 0
       THEN ChiBlock(2, 1) /\ UNCHANGED ChiVars
       ELSE /\ ChiCompute([i \in 1 .. N |-> Rat(total, N)])
            /\ data_entered' = TRUE
            /\ ChiDone(2)
            /\ UNCHANGED <<N, total, observed, chance>>
  /\ UNCHANGED <<helper_type, NotChi>>

\* code 3: expected probabilities; accepted only if they add up to 1 (within 0.001)
ChiCmd3 ==
  /\ AtTop("chi2", 3)
  /\ IF total = 0
       THEN ChiBlock(3, 1) /\ UNCHANGED ChiVars
       ELSE \E ps \in [1 .. N -> ChiProbs] :
              /\ chance' = ps
              /\ ChiCompute([i \in 1 .. N |-> RMul(ps[i], RInt(total))])
              /\ data_entered' = (IF SumRats(ps) = One THEN TRUE ELSE data_entered)
              /\ ChiDone(3)
              /\ UNCHANGED <<N, total, observed>>
  /\ UNCHANGED <<helper_type, NotChi>>

\* code 4: expected frequencies in [0.000001, total]; accepted only if they add up to total (within 0.001)
ChiCmd4 ==
  /\ AtTop("chi2", 4)
  /\ IF total = 0
       THEN ChiBlock(4, 1) /\ UNCHANGED ChiVars
       ELSE \E fs \in [1 .. N -> 1 .. total] :
              /\ ChiCompute([i \in 1 .. N |-> RInt(fs[i])])
              /\ data_entered' = (IF SumInts(fs) = total THEN TRUE ELSE data_entered)
              /\ ChiDone(4)
              /\ UNCHANGED <<N, total, observed, chance>>
  /\ UNCHANGED <<helper_type, NotChi>>

\* code 5: print the table, chi_squared and Yates
ChiCmd5 ==
  /\ AtTop("chi2", 5)
  /\ IF total = 0
       THEN ChiBlock(5, 1)
       ELSE ChiDone(5)
  /\ UNCHANGED <<helper_type, Locals>>

\* code 6: if not data_entered: future_code = code; code = 5; continue
ChiCmd6 ==
  /\ AtTop("chi2", 6)
  /\ IF ~data_entered
       THEN ChiBlock(6, 5)
       ELSE ChiDone(6)
  /\ UNCHANGED <<helper_type, Locals>>

\* codes 7, 8: rounding and the command list
ChiCmdPlain ==
  /\ pc = "top" /\ helper_type = "chi2" /\ code \in {7, 8}
  /\ ChiDone(code)
  /\ UNCHANGED <<helper_type, Locals>>

ChiNext ==
  \/ ChiEnter \/ ChiPrompt \/ ChiCmd1 \/ ChiCmd2 \/ ChiCmd3 \/ ChiCmd4
  \/ ChiCmd5 \/ ChiCmd6 \/ ChiCmdPlain

----------------------------------------------------------------------------
(* linear_helper *)

\* the command-code prompts of this helper give no bounds (lines 277 and 377)
MaxLinCode == 7
LinCodes == -1 .. MaxLinCode

\* values entered at code 2: left, right >= left + 0.0000001, pl >= 0, pr >= 0
LinLefts  == {<<0, 1>>}
LinRights == {<<1, 1>>, <<2, 1>>}
LinDens   == {<<0, 1>>, <<1, 2>>, <<1, 1>>, <<2, 1>>}

Two == <<2, 1>>

\* area = (right-left)*(pr+pl)/2.0
LinArea(le, ri, dl, dr) == RDiv(RMul(RSub(ri, le), RAdd(dr, dl)), Two)
\* if area > 1.0001 or area < 0.9999
LinAreaBad(a) == RLt(<<10001, 10000>>, a) \/ RLt(a, <<9999, 10000>>)

LinEnter ==
  /\ pc = "main"
  /\ helper_type' = "linear"
  /\ code' = 0
  /\ future_code' = 0
  /\ pc' = "prompt"
  /\ ran' = <<>> /\ owed' = 0 /\ resumes' = 0
  /\ UNCHANGED Locals

LinPrompt ==
  /\ pc = "prompt" /\ helper_type = "linear"
  /\ \E c \in LinCodes : code' = c
  /\ pc' = "top"
  /\ ran' = <<>>
  /\ NewRequest
  /\ UNCHANGED <<helper_type, future_code, Locals>>

LinDone(c) ==
  /\ ToPrompt /\ Log(c, "done") /\ Settle(c)

LinCrash(c) ==
  /\ Crash(c) /\ UNCHANGED <<owed, resumes>>

\* code 2: left, pl, right, pr are assigned as they are read; slope only if the area is 1 and pl != pr
LinCmd2 ==
  /\ AtTop("linear", 2)
  /\ \E le \in LinLefts, ri \in LinRights, dl \in LinDens, dr \in LinDens :
       /\ RLt(le, ri)
       /\ left' = le /\ pl' = dl /\ right' = ri /\ pr' = dr
       /\ lin_slope' = IF ~LinAreaBad(LinArea(le, ri, dl, dr)) /\ dl # dr
                         THEN RDiv(RSub(dr, dl), RSub(ri, le))
                         ELSE lin_slope
  /\ LinDone(2)
  /\ UNCHANGED <<helper_type, code, future_code, NotLin>>

\* code 3: reads pr, pl, l, u; reads slope when pr != pl and l <= upper <= u
LinCmd3 ==
  /\ AtTop("linear", 3)
  /\ \E inside \in BOOLEAN :
       IF pr = Unbound \/ (pr # pl /\ inside /\ lin_slope = Unbound)
         THEN LinCrash(3)
         ELSE LinDone(3)
  /\ UNCHANGED <<helper_type, code, future_code, Locals>>

\* codes 4, 5: get_user_float_input(..., None, l, u) reads l and u; then slope when pr != pl
LinCmd45 ==
  /\ pc = "top" /\ helper_type = "linear" /\ code \in {4, 5}
  /\ IF left = Unbound \/ (pr # pl /\ lin_slope = Unbound)
       THEN LinCrash(code)
       ELSE LinDone(code)
  /\ UNCHANGED <<helper_type, code, future_code, Locals>>

\* codes 1, 6: rounding and the command list
LinCmdPlain ==
  /\ pc = "top" /\ helper_type = "linear" /\ code \in {1, 6}
  /\ LinDone(code)
  /\ UNCHANGED <<helper_type, code, future_code, Locals>>

\* else: print("invalid code ...") and the command list
LinCmdInvalid ==
  /\ pc = "top" /\ helper_type = "linear" /\ code > 6
  /\ ToPrompt /\ Log(code, "invalid") /\ Settle(code)
  /\ UNCHANGED <<helper_type, code, future_code, Locals>>

LinNext ==
  \/ LinEnter \/ LinPrompt \/ LinCmd2 \/ LinCmd3 \/ LinCmd45 \/ LinCmdPlain
  \/ LinCmdInvalid

----------------------------------------------------------------------------
(* proportion_helper *)

\* sample sizes (get_user_int_input(..., None, 2)) and proportions (0.0 .. 1.0) entered
PropNs == {20, 40}
PropPs == {<<1, 4>>, <<1, 2>>, <<1, 1>>}
\* successes entered at code 4: get_user_int_input(..., None, 1, n-1)
PropKs == {5, 10}

Ten == <<10, 1>>

\* if fail*n < 10: skewed  elif p*n < 10: skewed
Skewed(n_, p_) ==
  \/ RLt(RMul(RSub(One, p_), RInt(n_)), Ten)
  \/ RLt(RMul(p_, RInt(n_)), Ten)

\* sdev = math.sqrt(p*fail/float(n))
PropSdev(n_, p_) == RSqrt(RDiv(RMul(p_, RSub(One, p_)), RInt(n_)))

\* lines 1127-1150: n and p are read first; a skewed pair returns to main() at once
PropEnter ==
  /\ pc = "main"
  /\ \E n_ \in PropNs, p_ \in PropPs :
       IF Skewed(n_, p_)
         THEN /\ pc' = "main"
              /\ helper_type' = "none"
              /\ UNCHANGED <<prop_n, p, sdev>>
         ELSE /\ pc' = "prompt"
              /\ helper_type' = "proportion"
              /\ prop_n' = n_
              /\ p' = p_
              /\ sdev' = PropSdev(n_, p_)
  /\ code' = 0
  /\ future_code' = 0
  /\ ran' = <<>> /\ owed' = 0 /\ resumes' = 0
  /\ UNCHANGED NotProp

PropPrompt ==
  /\ pc = "prompt" /\ helper_type = "proportion"
  /\ \E c \in 0 .. 9 : code' = c
  /\ pc' = "top"
  /\ ran' = <<>>
  /\ NewRequest
  /\ UNCHANGED <<helper_type, future_code, Locals>>

PropDone(c) ==
  /\ ToPrompt /\ Log(c, "done") /\ Settle(c)
  /\ UNCHANGED <<helper_type, code, future_code>>

\* codes 3 and 4 after n and p are assigned: sdev is recomputed only if the pair is not skewed
PropStore(n_, p_) ==
  /\ prop_n' = n_
  /\ p' = p_
  /\ sdev' = IF Skewed(n_, p_) THEN sdev ELSE PropSdev(n_, p_)

\* code 3: n, then p itself or successes/n
PropCmd3 ==
  /\ AtTop("proportion", 3)
  /\ \E n_ \in PropNs, p_ \in PropPs : PropStore(n_, p_)
  /\ PropDone(3)
  /\ UNCHANGED NotProp

\* code 4: n, then k in 1..n-1; p = k/n
PropCmd4 ==
  /\ AtTop("proportion", 4)
  /\ \E n_ \in PropNs, k \in PropKs : PropStore(n_, Rat(k, n_))
  /\ PropDone(4)
  /\ UNCHANGED NotProp

\* codes 1, 2, 5, 7: read sdev, p (and n)
PropCmdReads ==
  /\ pc = "top" /\ helper_type = "proportion" /\ code \in {1, 2, 5, 7}
  /\ PropDone(code)
  /\ UNCHANGED Locals

\* codes 6, 8, 9: interval arithmetic, rounding, the command list
PropCmdPlain ==
  /\ pc = "top" /\ helper_type = "proportion" /\ code \in {6, 8, 9}
  /\ PropDone(code)
  /\ UNCHANGED Locals

PropNext ==
  \/ PropEnter \/ PropPrompt \/ PropCmd3 \/ PropCmd4 \/ PropCmdReads \/ PropCmdPlain

----------------------------------------------------------------------------
(* regression_helper and crunch_data *)
(* The statistics are module globals.  While data_crunched is False every     *)
(* command recomputes a statistic before it reads it, so the values left over *)
(* from points that have since been replaced are never read; the model drops  *)
(* them (stats = NoStats) at the moment the points change and the flag falls. *)

MaxPts == 3
MaxX == 1
MaxY == 1
MaxCorrections == 1
\* header lines a file may hold before an export adds one more
MaxHeaders == 1

\* coordinates entered: get_user_float_input(..., None), whole numbers here
Xs == 0 .. MaxX
Ys == 0 .. MaxY
NoStats ==
  [totalx |-> Unbound, totaly |-> Unbound, totalxy |-> Unbound, totalx2 |-> Unbound,
   totaly2 |-> Unbound, meanx |-> Unbound, meany |-> Unbound, R |-> Unbound,
   intercept |-> Unbound, slope |-> Unbound, SE |-> Unbound, student_t |-> Unbound,
   sx |-> Unbound, sy |-> Unbound, sxy |-> Unbound, var_total |-> Unbound,
   var_explained |-> Unbound, var_unexplained |-> Unbound]

\* the first loop of crunch_data (and of codes 4 and 6): the five sums
Sums(xs, ys, k) ==
  [totalx  |-> SumInts([i \in 1 .. k |-> xs[i]]),
   totaly  |-> SumInts([i \in 1 .. k |-> ys[i]]),
   totalxy |-> SumInts([i \in 1 .. k |-> xs[i] * ys[i]]),
   totalx2 |-> SumInts([i \in 1 .. k |-> xs[i] * xs[i]]),
   totaly2 |-> SumInts([i \in 1 .. k |-> ys[i] * ys[i]])]

\* n*totalx2 - totalx**2, n*totaly2 - totaly**2, n*totalxy - totalx*totaly
DenX(t, k)  == k * t.totalx2 - t.totalx * t.totalx
DenY(t, k)  == k * t.totaly2 - t.totaly * t.totaly
NumXY(t, k) == k * t.totalxy - t.totalx * t.totaly

\* math.sqrt(v) is exact when v is a perfect square
IsSquare(v) == \E root \in 0 .. v : root * root = v
\* both square roots of formula #1 are exact
ExactRoots(t, k) == IsSquare(DenX(t, k)) /\ IsSquare(DenY(t, k))

\* R = num / (den * sqrt(rad)), kept symbolically as <<num, den, rad>>
\* formula #1: (n*totalxy - totalx*totaly) / (math.sqrt(n*totalx2 - totalx**2) * math.sqrt(n*totaly2 - totaly**2))
\* On collinear points the value is 1 or -1; with inexact square roots the float comes out
\* one step below, at, or above it.  crunch_data() raises at student_t unless it is below, so
\* an R that crunch_data() has stored there is <<num, den, rad, "below">>.
RFirst(t, k) ==
  IF NumXY(t, k) * NumXY(t, k) = DenX(t, k) * DenY(t, k) /\ ~ExactRoots(t, k)
    THEN <<NumXY(t, k), 1, DenX(t, k) * DenY(t, k), "below">>
    ELSE <<NumXY(t, k), 1, DenX(t, k) * DenY(t, k)>>
\* formula #1 divides by zero
RFirstFails(t, k) == DenX(t, k) * DenY(t, k) = 0

\* an intercept whose numerator multiplies totalx by totaly
InterceptWrongProduct(t, k) == Rat(t.totaly * t.totalx2 - t.totalx * t.totaly, DenX(t, k))

\* intercept and slope of the forward line; both divide by n*totalx2 - totalx**2
Intercept(t, k) == Rat(t.totaly * t.totalx2 - t.totalx * t.totalxy, DenX(t, k))
Slope(t, k)     == Rat(NumXY(t, k), DenX(t, k))
LineFails(t, k) == DenX(t, k) = 0

\* student_t = R*math.sqrt(n-2)/math.sqrt(1-R**2) on points whose R is 1 or -1: it divides
\* by zero when the float R is exactly that, math.sqrt raises ValueError when it is above
StudentFails(t, k) == NumXY(t, k) * NumXY(t, k) = DenX(t, k) * DenY(t, k)

\* crunch_data raises whatever the rounding (at R; at student_t with exact roots)
CrunchFails(xs, ys, k) ==
  LET t == Sums(xs, ys, k)
  IN  RFirstFails(t, k) \/ (StudentFails(t, k) /\ ExactRoots(t, k))

\* crunch_data raises for some rounding of the square roots
CrunchMayFail(xs, ys, k) ==
  LET t == Sums(xs, ys, k)
  IN  RFirstFails(t, k) \/ StudentFails(t, k)

\* every global crunch_data assigns, for a point set on which it does not raise
Crunched(xs, ys, k) ==
  LET t  == Sums(xs, ys, k)
      b  == Intercept(t, k)
      m  == Slope(t, k)
      my == Rat(t.totaly, k)
      yh == [i \in 1 .. k |-> RAdd(RMul(m, RInt(xs[i])), b)]
  IN  [totalx  |-> RInt(t.totalx),
       totaly  |-> RInt(t.totaly),
       totalxy |-> RInt(t.totalxy),
       totalx2 |-> RInt(t.totalx2),
       totaly2 |-> RInt(t.totaly2),
       meanx   |-> Rat(t.totalx, k),
       meany   |-> my,
       R       |-> RFirst(t, k),
       intercept |-> b,
       slope   |-> m,
       SE      |-> RSqrt(RDiv(RSub(RSub(RInt(t.totaly2), RMul(b, RInt(t.totaly))),
                                   RMul(m, RInt(t.totalxy))), RInt(k))),
       student_t |-> <<NumXY(t, k), DenX(t, k) * DenY(t, k), k - 2, "t">>,
       sx      |-> RSqrt(Rat(DenX(t, k), k * k)),
       sy      |-> RSqrt(Rat(DenY(t, k), k * k)),
       sxy     |-> Rat(NumXY(t, k), k * k),
       var_total |-> Rat(DenY(t, k), k),
       var_explained   |-> SumRats([i \in 1 .. k |-> RSq(RSub(yh[i], my))]),
       var_unexplained |-> SumRats([i \in 1 .. k |-> RSq(RSub(RInt(ys[i]), yh[i]))])]

\* code 5: totalx, totaly, meanx, meany, sx, sy and R = totalsum / ((n-1)*sx*sy)
RSecond(t, k) == <<k * NumXY(t, k), k - 1, DenX(t, k) * DenY(t, k)>>
RSecondFails(t, k) == k = 1 \/ DenX(t, k) * DenY(t, k) = 0
AfterCmd5(st, xs, ys, k) ==
  LET t == Sums(xs, ys, k)
  IN  [st EXCEPT !.totalx = RInt(t.totalx), !.totaly = RInt(t.totaly),
                 !.meanx = Rat(t.totalx, k), !.meany = Rat(t.totaly, k),
                 !.sx = RSqrt(Rat(DenX(t, k), k * k)),
                 !.sy = RSqrt(Rat(DenY(t, k), k * k)),
                 !.R = RSecond(t, k)]

\* code 6 without a cache: the five sums, intercept and slope
AfterCmd6(st, xs, ys, k) ==
  LET t == Sums(xs, ys, k)
  IN  [st EXCEPT !.totalx = RInt(t.totalx), !.totaly = RInt(t.totaly),
                 !.totalxy = RInt(t.totalxy), !.totalx2 = RInt(t.totalx2),
                 !.totaly2 = RInt(t.totaly2),
                 !.intercept = Intercept(t, k), !.slope = Slope(t, k)]

\* a line of the CSV file: <<"pt", x, y>> parses; <<"nocomma">> has no comma;
\* <<"hdr">> has a comma and an "x"; <<"bad">> has a comma, no "x", and a field float() rejects
PointLines(xs, ys) == [i \in 1 .. Len(xs) |-> <<"pt", xs[i], ys[i]>>]

\* the loop over the lines of the file (lines 1385-1398); k, the number of points appended so far,
\* is Len(xs); errs counts the "** ERROR line#" messages printed, hdrs the lines ignored as headers
RECURSIVE ReadLines(_, _, _, _, _)
ReadLines(lines, xs, ys, errs, hdrs) ==
  IF lines = <<>>
    THEN [ok |-> TRUE, xs |-> xs, ys |-> ys, errs |-> errs, hdrs |-> hdrs]
    ELSE LET line == Head(lines)
         IN  IF line[1] = "nocomma"
               THEN ReadLines(Tail(lines), xs, ys, errs + 1, hdrs)
               ELSE IF Len(xs) = 0 /\ line[1] = "hdr"
                 THEN ReadLines(Tail(lines), xs, ys, errs, hdrs + 1)
                 ELSE IF line[1] = "pt"
                   THEN ReadLines(Tail(lines), Append(xs, line[2]), Append(ys, line[3]), errs, hdrs)
                   ELSE [ok |-> FALSE, xs |-> xs, ys |-> ys, errs |-> errs, hdrs |-> hdrs]

\* the header lines of a file
Headers(f) == Len(SelectSeq(f, LAMBDA line : line[1] = "hdr"))

\* an import that prints nothing about the lines it skips
ReadFileSilently(f) == [ReadLines(f, <<>>, <<>>, 0, 0) EXCEPT !.errs = 0]

\* with open(filename, 'r') as f: k = 0; for line in f: ...
ReadFile(f) == ReadLines(f, <<>>, <<>>, 0, 0)

PointSeqs(lo, hi) == UNION {[1 .. m -> Xs \X Ys] : m \in lo .. hi}
XsOf(pts) == [i \in 1 .. Len(pts) |-> pts[i][1]]
YsOf(pts) == [i \in 1 .. Len(pts) |-> pts[i][2]]

\* two larger point sets the user may type in
Collinear == <<<<1, 2>>, <<2, 4>>, <<3, 6>>, <<4, 8>>>>
Scattered == <<<<1, 1>>, <<2, 2>>, <<3, 2>>, <<4, 3>>>>
Scenarios == {Collinear, Scattered}

\* the files the user may name: an optional header, then points, with at most one odd line
\* (one without a comma, or one with a comma and no numbers) somewhere among them
Files ==
  UNION {{(IF h THEN <<<<"hdr">>>> ELSE <<>>)
            \o SubSeq(PointLines(XsOf(pts), YsOf(pts)), 1, at)
            \o (IF j = "none" THEN <<>> ELSE <<<<j>>>>)
            \o SubSeq(PointLines(XsOf(pts), YsOf(pts)), at + 1, Len(pts)) :
              h \in BOOLEAN, j \in {"none", "nocomma", "bad"}, at \in 0 .. Len(pts)} :
         pts \in PointSeqs(0, MaxPts)}

\* range(a, b) of Python
Range(a, b) == a .. (b - 1)

\* code 2 has printed no point
NotListed == [first |-> 0, last |-> 0, points |-> {}]

\* nothing displayed
NotShown == [computed |-> FALSE]

\* code 7, lines 1584-1589: denom = n*totaly2-totaly**2; the reverse line when denom is not 0
RevLine(st, k) ==
  LET denom == RSub(RMul(RInt(k), st.totaly2), RSq(st.totaly))
  IN  IF RIsZero(denom)
        THEN NotShown
        ELSE [computed      |-> TRUE,
              rev_intercept |-> RDiv(RSub(RMul(st.totalx, RSq(st.totaly)),
                                          RMul(st.totaly, st.totalxy)), denom),
              rev_slope     |-> RDiv(RSub(RMul(RInt(k), st.totalxy),
                                          RMul(st.totalx, st.totaly)), denom)]

RegEnter ==
  /\ pc = "main"
  /\ helper_type' = "regression"
  /\ xlist' = <<0>>
  /\ ylist' = <<0>>
  /\ data_crunched' = FALSE
  /\ data_from_file' = FALSE
  /\ n' = 0
  /\ corrected' = FALSE
  /\ code' = 0
  /\ future_code' = 0
  /\ pc' = "prompt"
  /\ ran' = <<>> /\ owed' = 0 /\ resumes' = 0
  /\ UNCHANGED <<stats, file, reported, shown, listed, NotReg>>

\* lines 1348 and 1667: get_user_int_input("Enter the command code (0, or 1-11) :", ., 0, 11)
RegPrompt ==
  /\ pc = "prompt" /\ helper_type = "regression"
  /\ \E c \in 0 .. 11 : code' = c
  /\ pc' = "top"
  /\ ran' = <<>>
  /\ NewRequest
  /\ shown' = NotShown
  /\ listed' = NotListed
  /\ UNCHANGED <<helper_type, future_code, NotReg>>
  /\ UNCHANGED <<xlist, ylist, n, data_crunched, stats, data_from_file, corrected, file, reported>>

RegDone(c, o) ==
  /\ ToPrompt /\ Log(c, o) /\ Settle(c)
  /\ UNCHANGED <<helper_type, code, future_code>>

RegCrash(c) ==
  /\ Crash(c)
  /\ UNCHANGED <<helper_type, code, future_code, owed, resumes>>

\* codes 4, 5, 6, 7, 9 with n == 0: code = 1; continue
RegRedirect(c) ==
  /\ code' = 1
  /\ pc' = "top"
  /\ Log(c, "blocked")
  /\ Owe(c)
  /\ UNCHANGED <<helper_type, future_code>>

\* an abandoned import that leaves the command loop
RegAbandonLeaves ==
  /\ code' = 0
  /\ pc' = "top"
  /\ Log(1, "abandoned")
  /\ Settle(1)
  /\ UNCHANGED <<helper_type, future_code>>

\* if filename == "": print("Will terminate operation, ..."); code = 11; continue
RegAbandon ==
  /\ code' = 11
  /\ pc' = "top"
  /\ Log(1, "abandoned")
  /\ Settle(1)
  /\ UNCHANGED <<helper_type, future_code>>

\* a command 1 that clears nothing before it asks for the data
ClearPointsSkipped == UNCHANGED <<xlist, ylist, n>>

\* xlist[:] = {}; ylist[:] = {}; n = 0, before the user is asked where the data comes from
ClearPoints == xlist' = <<>> /\ ylist' = <<>> /\ n' = 0

\* code 1: the cache flag and the lists are cleared first, then the points are typed in or read from a file
RegCmd1 ==
  /\ AtTop("regression", 1)
  /\ data_crunched' = FALSE
  /\ \/ \E pts \in PointSeqs(2, MaxPts) \cup Scenarios :
          /\ xlist' = XsOf(pts)
          /\ ylist' = YsOf(pts)
          /\ n' = Len(pts)
          /\ data_from_file' = FALSE
          /\ file' = <<>> /\ reported' = 0
          /\ RegDone(1, "done")
     \/ \* no file of that name, and the user gives up
        /\ ClearPoints
        /\ RegAbandon
        /\ file' = <<>> /\ reported' = 0
        /\ UNCHANGED data_from_file
     \/ \* the file named is the one already in use, or another one
        \E f \in Files \cup {file} :
          LET got == ReadFile(f)
          IN  /\ xlist' = got.xs
              /\ ylist' = got.ys
              /\ file' = f
              /\ reported' = got.errs
              /\ IF got.ok
                   THEN /\ n' = Len(got.xs)
                        /\ data_from_file' = TRUE
                        /\ RegDone(1, "done")
                   ELSE /\ n' = 0
                        /\ RegCrash(1)
                        /\ UNCHANGED data_from_file
  /\ stats' = NoStats
  /\ corrected' = FALSE
  /\ UNCHANGED <<shown, listed, NotReg>>

\* code 2: print the points (all, or a subset), optionally append them to a file or plot them
RegCmd2 ==
  /\ AtTop("regression", 2)
  /\ \/ \* answer Y: for k in range(n): print X[k+1], Y[k+1]
        listed' = [first |-> 1, last |-> n, points |-> {k + 1 : k \in Range(0, n)}]
     \/ \* answer N: start = get_user_int_input(..., 1, 1, n); stop = get_user_int_input(..., n, start, n);
        \* for k in range(start, stop): print X[k], Y[k]
        \E start \in GetUserIntInput({1}, {1}, {n}) :
          \E stop \in GetUserIntInput({n}, {start}, {n}) :
            listed' = [first |-> start, last |-> stop, points |-> Range(start, stop)]
  /\ \/ \* nothing is saved (the data came from a file, or the answer is N)
        UNCHANGED file
     \/ \* with open(filename, 'a') as f: the header, then one line per point; the destination
        \* is the file in use, or one that does not exist yet
        /\ ~data_from_file
        /\ \E old \in {file, <<>>} :
             /\ Headers(old) <= MaxHeaders
             /\ file' = old \o <<<<"hdr">>>> \o PointLines(SubSeq(xlist, 1, n), SubSeq(ylist, 1, n))
  /\ RegDone(2, "done")
  /\ UNCHANGED <<xlist, ylist, n, data_crunched, stats, data_from_file, corrected, reported, shown, NotReg>>

\* the body of the while loop of code 3, once per correction <<k, x, y>>
RECURSIVE Corrected(_, _)
Corrected(fixes, st) ==
  IF fixes = <<>>
    THEN st
    ELSE LET k  == Head(fixes)[1]
             x  == Head(fixes)[2]
             y  == Head(fixes)[3]
             cx == st.xs[k] # x
             cy == st.ys[k] # y
         IN  Corrected(Tail(fixes),
               [xs |-> [st.xs EXCEPT ![k] = x],
                ys |-> [st.ys EXCEPT ![k] = y],
                crunched  |-> IF cx \/ cy THEN FALSE ELSE st.crunched,
                from_file |-> IF cx \/ cy THEN FALSE ELSE st.from_file])

\* the loop of code 3 never touching data_crunched
CorrectKeepingCache(fixes, st) ==
  [Corrected(fixes, st) EXCEPT !.crunched = st.crunched]

\* the while loop of code 3 (lines 1441-1461)
Correct(fixes, st) == Corrected(fixes, st)

\* code 3: correct points; the index prompt accepts 1..n only
RegCmd3 ==
  /\ AtTop("regression", 3)
  /\ \/ \* the user has nothing to correct
        /\ RegDone(3, "done")
        /\ UNCHANGED <<xlist, ylist, data_crunched, data_from_file, stats, corrected, file, reported>>
     \/ \* corrections are explored on the point sets of at most MaxPts points
        /\ n > 0 /\ Len(xlist) <= MaxPts
        /\ \E m \in 1 .. MaxCorrections :
             \E fixes \in [1 .. m -> (1 .. n) \X Xs \X Ys] :
               LET res == Correct(fixes, [xs |-> xlist, ys |-> ylist,
                                          crunched |-> data_crunched,
                                          from_file |-> data_from_file])
               IN  /\ xlist' = res.xs
                   /\ ylist' = res.ys
                   /\ data_crunched' = res.crunched
                   /\ data_from_file' = res.from_file
                   /\ stats' = IF res.crunched \/ (res.xs = xlist /\ res.ys = ylist)
                                THEN stats ELSE NoStats
                   /\ corrected' = (corrected \/ res.xs # xlist \/ res.ys # ylist)
                   /\ IF res.xs = xlist /\ res.ys = ylist
                        THEN UNCHANGED <<file, reported>>
                        ELSE file' = <<>> /\ reported' = 0
        /\ RegDone(3, "done")
     \/ \* with n = 0 no index is ever accepted: the prompt repeats for ever
        /\ n = 0
        /\ pc' = "stuck"
        /\ Log(3, "stuck")
        /\ UNCHANGED <<helper_type, code, future_code, owed, resumes>>
        /\ UNCHANGED <<xlist, ylist, data_crunched, data_from_file, stats, corrected, file, reported>>
  /\ UNCHANGED <<n, shown, listed, NotReg>>

\* crunch_data() that keeps the R it finds
CrunchKeepsR(c) ==
  \/ /\ CrunchMayFail(xlist, ylist, n)
     /\ RegCrash(c)
     /\ UNCHANGED <<stats, data_crunched>>
  \/ /\ ~CrunchFails(xlist, ylist, n)
     /\ stats' = [Crunched(xlist, ylist, n) EXCEPT !.R = stats.R]
     /\ data_crunched' = TRUE
     /\ RegDone(c, "done")

\* crunch_data() called by codes 4, 7, 8, 9 for a point set with n != 0
Crunch(c) ==
  \/ /\ CrunchMayFail(xlist, ylist, n)
     /\ RegCrash(c)
     /\ UNCHANGED <<stats, data_crunched>>
  \/ /\ ~CrunchFails(xlist, ylist, n)
     /\ stats' = Crunched(xlist, ylist, n)
     /\ data_crunched' = TRUE
     /\ RegDone(c, "done")

\* code 4: R by formula #1
RegCmd4 ==
  /\ AtTop("regression", 4)
  /\ IF data_crunched
       THEN /\ RegDone(4, "done")
            /\ UNCHANGED <<stats, data_crunched>>
       ELSE IF n # 0
         THEN Crunch(4)
         ELSE /\ RegRedirect(4)
              /\ UNCHANGED <<stats, data_crunched>>
  /\ UNCHANGED <<xlist, ylist, n, data_from_file, corrected, file, reported, shown, listed, NotReg>>

\* code 5 without the reset of the cache flag
RegCmd5KeepsCache ==
  /\ AtTop("regression", 5)
  /\ IF n # 0
       THEN /\ UNCHANGED data_crunched
            /\ IF RSecondFails(Sums(xlist, ylist, n), n)
                 THEN RegCrash(5) /\ UNCHANGED stats
                 ELSE /\ stats' = AfterCmd5(stats, xlist, ylist, n)
                      /\ RegDone(5, "done")
       ELSE /\ RegRedirect(5)
            /\ UNCHANGED <<stats, data_crunched>>
  /\ UNCHANGED <<xlist, ylist, n, data_from_file, corrected, file, reported, shown, listed, NotReg>>

\* code 5: R by formula #2; the cache flag is reset before anything is computed
RegCmd5 ==
  /\ AtTop("regression", 5)
  /\ IF n # 0
       THEN /\ data_crunched' = FALSE
            /\ IF RSecondFails(Sums(xlist, ylist, n), n)
                 THEN RegCrash(5) /\ UNCHANGED stats
                 ELSE /\ stats' = AfterCmd5(stats, xlist, ylist, n)
                      /\ RegDone(5, "done")
       ELSE /\ RegRedirect(5)
            /\ UNCHANGED <<stats, data_crunched>>
  /\ UNCHANGED <<xlist, ylist, n, data_from_file, corrected, file, reported, shown, listed, NotReg>>

\* code 6: the forward line, from the cache or computed on the spot
RegCmd6 ==
  /\ AtTop("regression", 6)
  /\ IF n # 0
       THEN IF data_crunched
              THEN RegDone(6, "done") /\ UNCHANGED stats
              ELSE IF LineFails(Sums(xlist, ylist, n), n)
                     THEN RegCrash(6) /\ UNCHANGED stats
                     ELSE /\ stats' = AfterCmd6(stats, xlist, ylist, n)
                          /\ RegDone(6, "done")
       ELSE RegRedirect(6) /\ UNCHANGED stats
  /\ UNCHANGED <<xlist, ylist, n, data_crunched, data_from_file, corrected, file, reported, shown, listed, NotReg>>

\* codes 7 and 9: every statistic; crunch_data() first if there is no cache
RegCmd79 ==
  /\ pc = "top" /\ helper_type = "regression" /\ code \in {7, 9}
  /\ IF n # 0
       THEN IF data_crunched
              THEN RegDone(code, "done") /\ UNCHANGED <<stats, data_crunched>>
              ELSE Crunch(code)
       ELSE /\ RegRedirect(code)
            /\ UNCHANGED <<stats, data_crunched>>
  /\ shown' = IF code = 7 /\ pc' = "prompt" THEN RevLine(stats', n) ELSE NotShown
  /\ UNCHANGED listed
  /\ UNCHANGED <<xlist, ylist, n, data_from_file, corrected, file, reported, NotReg>>

\* code 8: residuals against the fitted line (crunch_data() first if needed) or against a line the user types
RegCmd8 ==
  /\ AtTop("regression", 8)
  /\ \/ /\ n # 0
        /\ IF data_crunched
             THEN RegDone(8, "done") /\ UNCHANGED <<stats, data_crunched>>
             ELSE Crunch(8)
     \/ /\ RegDone(8, "own line")
        /\ UNCHANGED <<stats, data_crunched>>
  /\ UNCHANGED <<xlist, ylist, n, data_from_file, corrected, file, reported, shown, listed, NotReg>>

\* codes 10, 11: rounding and the command list
RegCmdPlain ==
  /\ pc = "top" /\ helper_type = "regression" /\ code \in {10, 11}
  /\ RegDone(code, "done")
  /\ UNCHANGED Locals

RegNext ==
  \/ RegEnter \/ RegPrompt \/ RegCmd1 \/ RegCmd2 \/ RegCmd3 \/ RegCmd4 \/ RegCmd5
  \/ RegCmd6 \/ RegCmd79 \/ RegCmd8 \/ RegCmdPlain

----------------------------------------------------------------------------
(* main() and the end of every helper loop *)

NoFrame ==
  /\ sdev' = Unbound
  /\ mean_set' = FALSE /\ mean' = Unbound
  /\ parms_set' = FALSE /\ d' = Unbound
  /\ N' = 0 /\ total' = 0 /\ observed' = <<>> /\ expected' = <<>> /\ z2' = <<>>
  /\ chance' = <<>> /\ chi_squared' = Unbound /\ Yates' = Unbound
  /\ data_entered' = FALSE /\ stat_obs' = <<>>
  /\ left' = Unbound /\ right' = Unbound /\ pl' = Unbound /\ pr' = Unbound
  /\ lin_slope' = Unbound
  /\ prop_n' = 0 /\ p' = Unbound
  /\ data_from_file' = FALSE /\ corrected' = FALSE
  /\ file' = <<>> /\ reported' = 0 /\ shown' = NotShown /\ listed' = NotListed

\* while(code > 0) fails: return 0 to main(); the helper's locals are gone.
\* The regression globals outlive the call, but the next call of regression_helper
\* re-initialises xlist, ylist, n and data_crunched before reading them.
HelperReturn ==
  /\ pc = "top" /\ code <= 0
  /\ pc' = "main"
  /\ helper_type' = "none"
  /\ code' = 0 /\ future_code' = 0
  /\ ran' = <<>> /\ owed' = 0 /\ resumes' = 0
  /\ NoFrame
  /\ xlist' = <<>> /\ ylist' = <<>> /\ n' = 0 /\ data_crunched' = FALSE
  /\ stats' = NoStats

\* main(): helper_type == "exit" ends the loop and calls quit()
MainExit ==
  /\ pc = "main"
  /\ pc' = "ended"
  /\ UNCHANGED <<helper_type, code, future_code, ran, owed, resumes, Locals>>

Init ==
  /\ pc = "main"
  /\ helper_type = "none"
  /\ code = 0
  /\ future_code = 0
  /\ ran = <<>>
  /\ owed = 0
  /\ resumes = 0
  /\ sdev = Unbound
  /\ mean_set = FALSE /\ mean = Unbound
  /\ parms_set = FALSE /\ d = Unbound
  /\ N = 0 /\ total = 0 /\ observed = <<>> /\ expected = <<>> /\ z2 = <<>>
  /\ chance = <<>> /\ chi_squared = Unbound /\ Yates = Unbound
  /\ data_entered = FALSE /\ stat_obs = <<>>
  /\ left = Unbound /\ right = Unbound /\ pl = Unbound /\ pr = Unbound
  /\ lin_slope = Unbound
  /\ prop_n = 0 /\ p = Unbound
  /\ xlist = <<>> /\ ylist = <<>> /\ n = 0 /\ data_crunched = FALSE
  /\ stats = NoStats
  /\ data_from_file = FALSE /\ corrected = FALSE
  /\ file = <<>> /\ reported = 0 /\ shown = NotShown /\ listed = NotListed

Next ==
  \/ NormalNext
  \/ DiffNext
  \/ ChiNext
  \/ LinNext
  \/ PropNext
  \/ RegNext
  \/ HelperReturn
  \/ MainExit

Spec == Init /\ [][Next]_vars

----------------------------------------------------------------------------
(* Properties: the deferred-command slot *)

\* the command at the top of the loop was put there by a resumption
Resumed == pc = "top" /\ ran # <<>> /\ Last(ran)[2] = "done"

\* the parameter-entry command of the running helper has just finished and the data
\* the still-owed command was waiting for is there
PrerequisiteSupplied ==
  /\ ran # <<>> /\ Last(ran)[2] = "done"
  /\ \/ helper_type = "normal" /\ Last(ran)[1] = 2 /\ mean_set
     \/ helper_type = "diff of proportions" /\ Last(ran)[1] \in {3, 4} /\ parms_set
     \/ helper_type = "chi2" /\ Last(ran)[1] = 1 /\ total # 0 /\ owed \in 2 .. 5
     \/ helper_type = "regression" /\ Last(ran)[1] = 1 /\ n # 0

\* C1: in the normal, difference-of-proportions, chi-square and regression helpers, when
\* the user is asked for another command code right after the parameter-entry command
\* supplied the prerequisite, the command that was blocked has been executed (none is owed).
C1_DeferredRunsBeforeNextPrompt ==
  (pc = "prompt" /\ PrerequisiteSupplied) => owed = 0

\* the command at the top of the loop tests a precondition that does not hold
Unmet ==
  /\ pc = "top"
  /\ \/ helper_type = "normal" /\ code \in NormalGuarded \cup {8, 12} /\ ~mean_set
     \/ helper_type = "chi2" /\ code \in 2 .. 5 /\ total = 0
     \/ helper_type = "chi2" /\ code = 6 /\ ~data_entered
     \/ helper_type = "diff of proportions" /\ code \in {1, 2, 5} /\ ~parms_set

\* the command a blocked command is redirected to
Prereq ==
  IF helper_type = "normal" THEN {2}
  ELSE IF helper_type = "chi2" THEN (IF code = 6 THEN {5} ELSE {1})
  ELSE {3, 4}

\* the step shows no prompt: it only reports the blocked command and puts the
\* prerequisite command at the top of the loop
Redirected ==
  /\ ran' = Append(ran, <<code, "blocked">>)
  /\ pc' = "top"
  /\ code' \in Prereq

C3_ChiResumesAfterCmd1 ==
  [][(AtTop("chi2", 1) /\ future_code \in 2 .. 5)
       => (pc' = "top" /\ code' = future_code /\ future_code' = 0)]_vars

\* C4: whenever a deferred command is re-invoked the slot is already 0, and no blocked
\* command is resumed more than once.
C4_SlotClearedOnResume ==
  (Resumed => future_code = 0) /\ resumes <= 1

\* command 6 of the normal helper was blocked, command 2 ran, and 6 is about to run again
C4_Witness ==
  /\ helper_type = "normal" /\ Resumed
  /\ ran = <<<<6, "blocked">>, <<2, "done">>>>
  /\ code = 6 /\ future_code = 0 /\ resumes = 1

\* C5: the slot holds the most recently blocked command (a second block overwrites the
\* first), and a resumption puts exactly that command at the top of the loop.
C5_LastBlockedWins ==
  /\ (future_code # 0 /\ owed # 0) => future_code = owed
  /\ Resumed => code = owed

\* chi-square: command 6 was deferred, then command 5 blocked too and took the slot
C5_Witness ==
  /\ helper_type = "chi2" /\ pc = "top"
  /\ ran = <<<<6, "blocked">>, <<5, "blocked">>>>
  /\ future_code = 5 /\ owed = 5 /\ code = 1

\* a command that reads the model parameters is at the top of the loop before any parameter entry
ReadsUnsetParameters ==
  /\ pc = "top"
  /\ \/ helper_type = "diff of proportions" /\ code = 8 /\ ~parms_set
     \/ helper_type = "normal" /\ code = 3 /\ ~mean_set
     \/ helper_type = "linear" /\ code \in {3, 4, 5} /\ pr = Unbound

\* C6: command 8 of the difference of proportions, command 3 of the normal helper and
\* commands 3, 4, 5 of the linear helper, issued before parameter entry, are redirected to
\* the parameter-entry command instead of running their computation.
C6_NoComputationOnUnsetParameters ==
  [][ReadsUnsetParameters
       => (pc' = "top" /\ code' \in (IF helper_type = "diff of proportions" THEN {3, 4} ELSE {2}))]_vars

----------------------------------------------------------------------------
(* Properties: derived values and the data they come from *)

\* C7: in the regression helper every step that changes the point set (command 1,
\* command 3) leaves data_crunched false.
C7_PointChangeClearsCache ==
  [][(helper_type = "regression" /\ pc = "top" /\ (xlist' # xlist \/ ylist' # ylist))
       => data_crunched' = FALSE]_vars

\* command 3 has just changed a point of a three-point set
C7_Witness ==
  /\ helper_type = "regression" /\ pc = "prompt"
  /\ ran = <<<<3, "done">>>> /\ corrected /\ n = 3 /\ ~data_crunched

\* C8: what commands 4, 6, 7, 8, 9 of the regression helper have just displayed is the
\* value computed from the current (corrected) point set: R for 4, intercept and slope
\* for 6, every statistic of crunch_data for 7, 8 and 9.
C8_DisplayedStatisticsAreCurrent ==
  (helper_type = "regression" /\ pc = "prompt" /\ ran # <<>> /\ Last(ran)[2] = "done")
    => LET c == Last(ran)[1]
           t == Sums(xlist, ylist, n)
       IN  /\ c = 4 => stats.R = RFirst(t, n)
           /\ c = 6 => (stats.intercept = Intercept(t, n) /\ stats.slope = Slope(t, n))
           /\ c \in {7, 8, 9} => (data_crunched /\ stats = Crunched(xlist, ylist, n))

\* a point was corrected and command 7 has then displayed the statistics
C8_Witness ==
  /\ helper_type = "regression" /\ pc = "prompt"
  /\ corrected /\ ran = <<<<7, "done">>>> /\ data_crunched

\* C9: in the chi-square helper, when command 5 or 6 has displayed chi_squared and Yates,
\* those were computed from the observations now in the table.
C9_ChiStatisticsAreCurrent ==
  (/\ helper_type = "chi2" /\ pc = "prompt"
   /\ ran # <<>> /\ Last(ran) \in {<<5, "done">>, <<6, "done">>}
   /\ stat_obs # <<>>)
    => stat_obs = observed

\* C10: in the proportion helper, when command 1, 2, 5 or 7 has read sdev, sdev is the
\* standard error of the current n and p.
C10_SdevMatchesParameters ==
  (/\ helper_type = "proportion" /\ pc = "prompt"
   /\ ran # <<>> /\ Last(ran)[1] \in {1, 2, 5, 7} /\ Last(ran)[2] = "done")
    => sdev = PropSdev(prop_n, p)

----------------------------------------------------------------------------
(* Properties: degenerate data in the regression helper *)

\* every x of the point set is the same value / every y is
SameX == \A i, j \in 1 .. n : xlist[i] = xlist[j]
SameY == \A i, j \in 1 .. n : ylist[i] = ylist[j]

\* C11: on a point set whose x values are all identical, the commands that compute the
\* forward line (6 directly, 7 and 9 through crunch_data) report it and go back to the
\* prompt; the process does not end on a division by zero.
C11_SameXReportedNotRaised ==
  [][(/\ helper_type = "regression" /\ pc = "top" /\ code \in {6, 7, 9}
      /\ n # 0 /\ SameX)
       => pc' = "prompt"]_vars

\* C12: on a point set whose y values are all identical while the x values are not,
\* command 7 reports that the reverse line cannot be computed and goes back to the
\* prompt; the session does not end.
C12_SameYReportedNotRaised ==
  [][(AtTop("regression", 7) /\ n # 0 /\ SameY /\ ~SameX)
       => pc' = "prompt"]_vars

\* C13: on exactly two points, or on points with R*R = 1, command 7 treats Student-t as
\* undefined, completes and goes back to the prompt.
C13_StudentUndefinedNotRaised ==
  [][(/\ AtTop("regression", 7) /\ n # 0
      /\ ~SameX /\ ~SameY
      /\ (n = 2 \/ StudentFails(Sums(xlist, ylist, n), n)))
       => pc' = "prompt"]_vars

----------------------------------------------------------------------------
(* Properties: rejected input *)

\* C14: in the difference-of-proportions helper a parameter entry (command 3 or 4),
\* degenerate or not, does not end the session: an entry whose pooled proportion is 0 or 1
\* is reported and the helper is back at its prompt.
C14_DegenerateEntryReturnsToPrompt ==
  [][(helper_type = "diff of proportions" /\ pc = "top" /\ code \in {3, 4})
       => pc' # "crashed"]_vars

\* C15: a command 3 whose probabilities do not add up to 1, or a command 4 whose
\* frequencies do not add up to the total, leaves expected, z2, chi_squared, Yates and
\* data_entered as they were.
C15_RejectedExpectationsChangeNothing ==
  [][(/\ helper_type = "chi2" /\ pc = "top" /\ total # 0
      /\ \/ code = 3 /\ SumRats(chance') # One
         \/ code = 4 /\ SumRats(expected') # RInt(total))
       => UNCHANGED <<expected, z2, chi_squared, Yates, data_entered>>]_vars

\* C16: a command 2 of the linear helper whose area is not 1 leaves left, right, pl, pr
\* (and l, u, which are copies of left and right) and slope as they were.
C16_RejectedDistributionChangesNothing ==
  [][(AtTop("linear", 2) /\ LinAreaBad(LinArea(left', right', pl', pr')))
       => UNCHANGED <<left, right, pl, pr, lin_slope>>]_vars

----------------------------------------------------------------------------
(* Properties: the command loops *)

\* C17: in the normal helper, once mean and sdev are set, each of the commands 1..17
\* completes and the helper is back at its prompt (or at the top of the loop with the
\* resumed command); no command ends the process.
C17_NormalCommandsComplete ==
  [][(helper_type = "normal" /\ pc = "top" /\ mean_set /\ code \in 1 .. 17)
       => pc' \in {"prompt", "top"}]_vars

\* C18: in every helper a command loop is left only on code 0: a code outside the
\* declared range, a negative one included, prints the command list and asks again.
C18_LoopEndsOnlyOnZero ==
  [][(pc = "top" /\ code # 0) => (pc' # "main" /\ helper_type' = helper_type)]_vars

----------------------------------------------------------------------------
(* Properties: the CSV file *)

\* the current point set has been appended to the file by command 2 and not changed since
Exported == helper_type = "regression" /\ file # <<>> /\ ~data_from_file

\* C19: when the current point set has been exported with command 2, to a new file or to
\* one exported to before, importing that file with command 1 gives back the same ordered
\* sequence of (x, y) pairs.
C19_ExportThenImportRoundTrips ==
  [][(AtTop("regression", 1) /\ Exported /\ file' = file)
       => /\ pc' = "prompt"
          /\ n' = n
          /\ xlist' = SubSeq(xlist, 1, n)
          /\ ylist' = SubSeq(ylist, 1, n)]_vars

\* the lines of a file that are points / that have no comma
DataLines(f)    == SelectSeq(f, LAMBDA line : line[1] = "pt")
NoCommaLines(f) == SelectSeq(f, LAMBDA line : line[1] = "nocomma")

\* command 1 has just read the file and is back at the prompt
Imported ==
  /\ helper_type = "regression" /\ pc = "prompt"
  /\ ran # <<>> /\ Last(ran) = <<1, "done">> /\ data_from_file

\* C20: after an import the point set is exactly the data lines of the file, in file order,
\* n is their number, and one message was printed for each line without a comma; a header
\* line before the first point is skipped silently.
C20_ImportKeepsExactlyTheDataLines ==
  Imported
    => /\ PointLines(xlist, ylist) = DataLines(file)
       /\ n = Len(DataLines(file))
       /\ reported = Len(NoCommaLines(file))

\* a file with a header, a line without a comma and three points has been imported
C20_Witness ==
  /\ Imported
  /\ Len(file) = 5 /\ file[1] = <<"hdr">> /\ file[3] = <<"nocomma">>
  /\ n = 3 /\ Len(xlist) = 3 /\ reported = 1

\* C21: an import ignores as a header at most the first line of the file: a line holding
\* "x" further down is not skipped as a header.
C21_OnlyFirstLineIsHeader ==
  Imported
    => ReadFile(file).hdrs = (IF file # <<>> /\ file[1] = <<"hdr">> THEN 1 ELSE 0)

\* C22: an import that meets a line with a comma whose fields are not numbers reports it,
\* skips it, reads the remaining lines and goes back to the prompt.
C22_UnparsableLineIsSkipped ==
  [][(AtTop("regression", 1) /\ \E i \in 1 .. Len(file') : file'[i] = <<"bad">>)
       => /\ pc' = "prompt"
          /\ PointLines(xlist', ylist') = DataLines(file')
          /\ n' = Len(DataLines(file'))]_vars

\* command 1 has given up on a file name that does not exist
Abandoned == ran # <<>> /\ Last(ran) = <<1, "abandoned">>

\* C23: when the file named for an import does not exist and the user gives up, the
\* regression helper stays in its command loop (it runs command 11 and asks for the next
\* command code); the process does not end.
C23_AbandonedImportStaysInLoop ==
  [][(/\ helper_type = "regression" /\ pc = "top"
      /\ \/ code = 1 /\ Abandoned'
         \/ Abandoned)
       => /\ helper_type' = "regression"
          /\ \/ pc' = "top" /\ code' = 11
             \/ pc' = "prompt"]_vars

\* the command list has been printed after an abandoned import and the prompt is back
C23_Witness ==
  /\ helper_type = "regression" /\ pc = "prompt"
  /\ Len(ran) >= 2 /\ ran[Len(ran) - 1] = <<1, "abandoned">> /\ Last(ran) = <<11, "done">>
  /\ n = 0 /\ xlist = <<>>

----------------------------------------------------------------------------
(* Properties: the input functions *)

\* C24: a value returned by get_user_int_input is not below `least` and not above `most`,
\* the default returned for an empty line included; checked at the two calls of command 2
\* of the regression helper, whose bounds are 1..n and start..n.
C24_ReturnedValueWithinBounds ==
  AtTop("regression", 2)
    => \A start \in GetUserIntInput({1}, {1}, {n}) :
         /\ 1 <= start /\ start <= n
         /\ \A stop \in GetUserIntInput({n}, {start}, {n}) : start <= stop /\ stop <= n

----------------------------------------------------------------------------
(* Properties: the values computed from the points *)

\* C25: the reverse line command 7 prints is the forward-line formula with x and y
\* swapped: slope = (n*Sxy - Sx*Sy)/(n*Syy - Sy*Sy) and intercept =
\* (Sx*Syy - Sy*Sxy)/(n*Syy - Sy*Sy), Syy being the sum of the squared y values.
C25_ReverseLineIsForwardLineSwapped ==
  (helper_type = "regression" /\ pc = "prompt" /\ shown.computed)
    => LET t == Sums(xlist, ylist, n)
       IN  /\ shown.rev_slope = Rat(NumXY(t, n), DenY(t, n))
           /\ shown.rev_intercept = Rat(t.totalx * t.totaly2 - t.totaly * t.totalxy, DenY(t, n))

\* two values num/(den*sqrt(rad)) that are the same number.  The values of the model are
\* exact, with numerators and denominators far below 10^4, so two of them that differ
\* differ by much more than 1e-9 of either.
SameR(a, b) == a[3] = b[3] /\ a[1] * b[2] = b[1] * a[2]

\* C26: on three or more points that are neither degenerate nor collinear, the R that
\* command 5 has just computed with the second formula agrees (within 1e-9 relative) with
\* the R of the primary formula.
C26_SecondFormulaAgrees ==
  (/\ helper_type = "regression" /\ pc = "prompt"
   /\ ran # <<>> /\ Last(ran) = <<5, "done">>
   /\ n >= 3
   /\ ~RFirstFails(Sums(xlist, ylist, n), n)
   /\ ~StudentFails(Sums(xlist, ylist, n), n))
    => SameR(stats.R, RFirst(Sums(xlist, ylist, n), n))

\* the points typed in are those of pts
Holds(pts) == n = Len(pts) /\ xlist = XsOf(pts) /\ ylist = YsOf(pts)

\* command c has just run to its end, or has ended the process
Ran(c) == helper_type = "regression" /\ ran # <<>> /\ Last(ran)[1] = c /\ pc \in {"prompt", "crashed"}

\* an R that is the number 1, not a float next to it
IsExactlyOne(R) == Len(R) = 3 /\ R[1] > 0 /\ R[1] * R[1] = R[2] * R[2] * R[3]

\* C27: on the points (1,2),(2,4),(3,6),(4,8) command 7 reports slope 2, intercept 0 and
\* an R that is exactly 1.
C27_CollinearScenarioIsExact ==
  (Ran(7) /\ Holds(Collinear))
    => /\ pc = "prompt"
       /\ stats.slope = <<2, 1>>
       /\ stats.intercept = <<0, 1>>
       /\ IsExactlyOne(stats.R)

\* within 1e-6 of each other
Near(a, b) == ~RLt(<<1, 1000000>>, RAbs(RSub(a, b)))

\* C28 as amended: on the points (1,1),(2,2),(3,2),(4,3) the forward line that command 6 or
\* 7 has computed has intercept 0.5 and slope 0.6 (within 1e-6).
C28_ScatteredScenarioLine ==
  ((Ran(6) \/ Ran(7)) /\ Holds(Scattered))
    => /\ pc = "prompt"
       /\ Near(stats.intercept, <<1, 2>>)
       /\ Near(stats.slope, <<3, 5>>)

\* C28 as stated: intercept 0.9 and slope 0.6 (within 1e-6)
C28_ScatteredScenarioAsStated ==
  ((Ran(6) \/ Ran(7)) /\ Holds(Scattered))
    => /\ pc = "prompt"
       /\ Near(stats.intercept, <<9, 10>>)
       /\ Near(stats.slope, <<3, 5>>)

\* command 6 has just computed the line of the four points
C28_Witness ==
  Ran(6) /\ pc = "prompt" /\ Holds(Scattered) /\ stats.slope = <<3, 5>>

\* C29: difference of proportions: a step of command 3 or 4 that completes while a command
\* is deferred puts that command at the top of the loop, with no command-code prompt, and
\* empties the slot; the step after it executes that command, whatever was run before.
C29_DeferredRunsAfterParameterEntry ==
  [][/\ (/\ helper_type = "diff of proportions" /\ pc = "top"
          /\ code \in {3, 4} /\ future_code > 0 /\ pc' # "crashed")
        => /\ pc' = "top"
           /\ code' = future_code
           /\ future_code' = 0
           /\ ran' = Append(ran, <<code, "done">>)
     /\ (helper_type = "diff of proportions" /\ Resumed)
        => /\ code \in {1, 2, 5}
           /\ ran' = Append(ran, <<code, "done">>)
           /\ pc' = "prompt"]_vars

\* command 2 was blocked, command 4 was typed and completed, and command 2 has then run
C29_Witness ==
  /\ helper_type = "diff of proportions" /\ pc = "prompt"
  /\ ran = <<<<2, "asked">>, <<4, "done">>, <<2, "done">>>>
  /\ future_code = 0 /\ parms_set = TRUE

\* C30: the regression helper is never left at a bounded prompt that no value can
\* answer: the index prompt of command 3 and the start and stop prompts of command 2 each
\* accept some value, also when n = 0, so the command-code prompt can always be reached again.
C30_EveryPromptCanBeAnswered ==
  helper_type = "regression"
    => /\ pc # "stuck"
       /\ (pc = "top" /\ code = 3) => GetUserIntInput({}, {1}, {n}) # {}
       /\ (pc = "top" /\ code = 2) =>
             \E start \in GetUserIntInput({1}, {1}, {n}) : GetUserIntInput({n}, {start}, {n}) # {}

\* C31: when command 2 is asked for the points from `first` to `last`, it prints every point
\* with an index in first .. last, the last one named included.
C31_SubsetIncludesLastPoint ==
  (Ran(2) /\ pc = "prompt") => listed.points = listed.first .. listed.last

\* C32: in the normal helper the deferred slot is empty at every command-code prompt.
C32_NormalSlotEmptyAtPrompt ==
  (helper_type = "normal" /\ pc = "prompt") => future_code = 0

\* command 6 was blocked, command 2 ran in its place, command 6 ran after it, and the
\* helper is back at the prompt
C32_Witness ==
  /\ helper_type = "normal" /\ pc = "prompt"
  /\ ran = <<<<6, "blocked">>, <<2, "done">>, <<6, "done">>>>
  /\ future_code = 0

\* C33: difference of proportions: at every command-code prompt a pending deferred command
\* means the parameters are still unset, and within one call of the helper parms_set, once
\* true, stays true.
C33_PendingImpliesUnset ==
  [][/\ (helper_type' = "diff of proportions" /\ pc' = "prompt" /\ future_code' > 0)
          => parms_set' = FALSE
     /\ (helper_type = "diff of proportions" /\ helper_type' = helper_type /\ parms_set = TRUE)
          => parms_set' = TRUE]_vars

\* command 1 was deferred, the user typed 6 instead of 3 or 4, and the helper is at the
\* prompt with command 1 still pending
C33_Witness ==
  /\ helper_type = "diff of proportions" /\ pc = "prompt"
  /\ ran = <<<<1, "asked">>, <<6, "done">>>>
  /\ future_code = 1 /\ parms_set = FALSE

C35_ListsMatchCount ==
  (helper_type = "regression" /\ pc = "prompt")
    => (Len(xlist) = Len(ylist) /\ Len(xlist) = n)

\* C36: every step of command 5 of the regression helper leaves data_crunched false, and
\* every step of command 4 or 7 that ends at the prompt with points entered leaves in R
\* the value of the primary formula for the current points, whatever command 5 left there.
C36_SecondFormulaNeverShownAsR ==
  [][/\ AtTop("regression", 5) => data_crunched' = FALSE
     /\ (/\ helper_type = "regression" /\ pc = "top" /\ code \in {4, 7}
         /\ pc' = "prompt" /\ n # 0)
          => stats'.R = RFirst(Sums(xlist, ylist, n), n)]_vars

\* command 5 has just left in R a value that is not the one of the primary formula
C36_Witness ==
  /\ Ran(5) /\ pc = "prompt" /\ n = 3 /\ ~data_crunched
  /\ ~RFirstFails(Sums(xlist, ylist, n), n)
  /\ ~SameR(stats.R, RFirst(Sums(xlist, ylist, n), n))

\* C37: a command 1 of the regression helper whose file import is abandoned leaves n = 0,
\* empty point lists and data_crunched false, and the command 11 that follows it returns
\* to the command-code prompt with all of that still so, whatever was there before.
C37_AbandonedImportLeavesNoData ==
  [][/\ (AtTop("regression", 1) /\ Last(ran') = <<1, "abandoned">>)
          => (n' = 0 /\ xlist' = <<>> /\ ylist' = <<>> /\ data_crunched' = FALSE)
     /\ (AtTop("regression", 11) /\ Abandoned)
          => /\ pc' = "prompt"
             /\ n' = 0 /\ xlist' = <<>> /\ ylist' = <<>> /\ data_crunched' = FALSE]_vars

\* points had been read from a file, then an import was abandoned, and the helper is
\* back at the prompt
C37_Witness ==
  /\ helper_type = "regression" /\ pc = "prompt"
  /\ ran = <<<<1, "abandoned">>, <<11, "done">>>>
  /\ data_from_file /\ n = 0 /\ xlist = <<>>

====
